---- MODULE Spec2Model ----
(***************************************************************************)
(* Request pipeline of the Syrian Math Tutor API (src/main.py): the        *)
(* /solve and /chat handlers, from request validation over message        *)
(* construction and the single provider call to response unwrapping and    *)
(* the handlers' except clauses.                                           *)
(*                                                                         *)
(* Text is a sequence of Unicode codepoints.  JSON data (the outbound      *)
(* messages and the decoded conversation history) is a tagged value        *)
(* [k, v]; a Python dict is an "obj" whose v is the ordered sequence of    *)
(* <<key, value>> pairs.                                                   *)
(***************************************************************************)
EXTENDS Integers, Sequences, FiniteSets, TLC

VARIABLES
    pc,        \* position of the handler: "idle", "awaiting" (suspended in
               \* call_groq_api), "done" (response delivered)
    request,   \* the form fields of the request being handled
    outbound,  \* the payloads posted to the provider, in order of posting
    reply,     \* what the provider call produced (body or exception)
    response   \* what is delivered to the client

vars == <<pc, request, outbound, reply, response>>

----------------------------------------------------------------------------
\* Bounds of the model.

MaxTextLen == 2

MaxImageLen == 3

MaxChoices == 2

----------------------------------------------------------------------------
\* String literals of src/main.py, as codepoints.

\* src/main.py: 'role'
S_role ==
    <<114, 111, 108, 101>>

\* src/main.py: 'content'
S_content ==
    <<99, 111, 110, 116, 101, 110, 116>>

\* src/main.py: 'system'
S_system ==
    <<115, 121, 115, 116, 101, 109>>

\* src/main.py: 'user'
S_user ==
    <<117, 115, 101, 114>>

\* src/main.py: 'type'
S_type ==
    <<116, 121, 112, 101>>

\* src/main.py: 'image_url'
S_image_url ==
    <<105, 109, 97, 103, 101, 95, 117, 114, 108>>

\* src/main.py: 'url'
S_url ==
    <<117, 114, 108>>

\* src/main.py: 'text'
S_text ==
    <<116, 101, 120, 116>>

\* src/main.py: 'data:'
S_data ==
    <<100, 97, 116, 97, 58>>

\* src/main.py: ';base64,'
S_base64 ==
    <<59, 98, 97, 115, 101, 54, 52, 44>>

\* src/main.py: 'image/jpeg'
S_image_jpeg ==
    <<105, 109, 97, 103, 101, 47, 106, 112, 101, 103>>

\* src/main.py: 'image/png'
S_image_png ==
    <<105, 109, 97, 103, 101, 47, 112, 110, 103>>

\* src/main.py: '\u062d\u0644 \u0647\u0630\u0647 \u0627\u0644\u0645\u0633\u0
ARABIC_IMAGE_INSTRUCTION ==
    <<1581, 1604, 32, 1607, 1584, 1607, 32, 1575, 1604, 1605, 1587, 1571,
    1604, 1577, 32, 1605, 1606, 32, 1575, 1604, 1589, 1608, 1585, 1577, 32,
    1576, 1575, 1604, 1578, 1601, 1589, 1610, 1604, 32, 1576, 1575, 1604,
    1593, 1585, 1576, 1610, 46>>

\* src/main.py: 'Solve this math problem from the image.'
DEFAULT_IMAGE_INSTRUCTION ==
    <<83, 111, 108, 118, 101, 32, 116, 104, 105, 115, 32, 109, 97, 116, 104,
    32, 112, 114, 111, 98, 108, 101, 109, 32, 102, 114, 111, 109, 32, 116,
    104, 101, 32, 105, 109, 97, 103, 101, 46>>

\* src/main.py: '\n\n\u0645\u0647\u0645: \u0623\u062c\u0628 \u0628\u0627\u06
ARABIC_DIRECTIVE ==
    <<10, 10, 1605, 1607, 1605, 58, 32, 1571, 1580, 1576, 32, 1576, 1575,
    1604, 1603, 1575, 1605, 1604, 32, 1576, 1575, 1604, 1604, 1607, 1580,
    1577, 32, 1575, 1604, 1588, 1575, 1605, 1610, 1577, 32, 1575, 1604,
    1587, 1608, 1585, 1610, 1577, 32, 1601, 1602, 1591, 33>>

\* src/main.py: '\n\nProvide adaptive teaching based on the problem difficul
ENGLISH_DIRECTIVE ==
    <<10, 10, 80, 114, 111, 118, 105, 100, 101, 32, 97, 100, 97, 112, 116,
    105, 118, 101, 32, 116, 101, 97, 99, 104, 105, 110, 103, 32, 98, 97,
    115, 101, 100, 32, 111, 110, 32, 116, 104, 101, 32, 112, 114, 111, 98,
    108, 101, 109, 32, 100, 105, 102, 102, 105, 99, 117, 108, 116, 121, 46>>

\* src/main.py: 'You are a revolutionary AI math tutor for Syrian students t
MASTER_TUTOR_PROMPT ==
    <<89, 111, 117, 32, 97, 114, 101, 32, 97, 32, 114, 101, 118, 111, 108,
    117, 116, 105, 111, 110, 97, 114, 121, 32, 65, 73, 32, 109, 97, 116,
    104, 32, 116, 117, 116, 111, 114, 32, 102, 111, 114, 32, 83, 121, 114,
    105, 97, 110, 32, 115, 116, 117, 100, 101, 110, 116, 115, 32, 116, 104,
    97, 116, 32, 97, 100, 97, 112, 116, 115, 32, 108, 105, 107, 101, 32, 97,
    32, 109, 97, 115, 116, 101, 114, 32, 116, 101, 97, 99, 104, 101, 114,
    46>>

\* src/main.py: 'ABCDEFGHIJKLMNOPQRSTUVWXYZabcdefghijklmnopqrstuvwxyz0123456
B64_ALPHABET ==
    <<65, 66, 67, 68, 69, 70, 71, 72, 73, 74, 75, 76, 77, 78, 79, 80, 81,
    82, 83, 84, 85, 86, 87, 88, 89, 90, 97, 98, 99, 100, 101, 102, 103, 104,
    105, 106, 107, 108, 109, 110, 111, 112, 113, 114, 115, 116, 117, 118,
    119, 120, 121, 122, 48, 49, 50, 51, 52, 53, 54, 55, 56, 57, 43, 47>>

\* "assistant", the role of a tutor turn in a caller-supplied history
S_assistant ==
    <<97, 115, 115, 105, 115, 116, 97, 110, 116>>

DEFAULT_MODEL == "llama-3.3-70b-versatile"

MAX_TOKENS == 2000

TIMEOUT == 60

\* temperature 0.7, in tenths
TEMPERATURE_TENTHS == 7

ARABIC_FIRST == 1536

ARABIC_LAST == 1791

----------------------------------------------------------------------------
\* Python values.

None == [present |-> FALSE, s |-> <<>>]

Some(s) == [present |-> TRUE, s |-> s]

\* bool(x) of an Optional[str]: None and "" are falsy
Truthy(opt) == opt.present /\ opt.s # <<>>

JStr(s) == [k |-> "str", v |-> s]

JNum(n) == [k |-> "num", v |-> <<n>>]

JNull == [k |-> "null", v |-> <<>>]

JTrue == [k |-> "true", v |-> <<>>]

JList(items) == [k |-> "list", v |-> items]

JObj(pairs) == [k |-> "obj", v |-> pairs]

\* An exception object: its class, the status of an HTTPException (0 for
\* the others), its detail and its str().
Exc(type, str) == [type |-> type, status_code |-> 0, detail |-> str, str |-> str]

StatusText(code) == IF code = 400 THEN "400" ELSE "500"

\* starlette's HTTPException.__str__ is "<status_code>: <detail>"
HTTPException(code, detail) ==
    [type |-> "HTTPException", status_code |-> code, detail |-> detail,
     str |-> StatusText(code) \o ": " \o detail]

NoExc == Exc("none", "")

----------------------------------------------------------------------------
\* Language detector: any('\u0600' <= c <= '\u06FF' for c in text)

is_arabic(text) ==
    \E i \in 1..Len(text) : ARABIC_FIRST <= text[i] /\ text[i] <= ARABIC_LAST

----------------------------------------------------------------------------
\* base64.b64encode(image_data).decode('utf-8')

B64Char(n) == B64_ALPHABET[n + 1]

B64_PAD == 61

RECURSIVE b64encode(_)
b64encode(data) ==
    IF Len(data) = 0 THEN <<>>
    ELSE IF Len(data) = 1 THEN
        LET n == data[1] * 65536
        IN  <<B64Char(n \div 262144), B64Char((n \div 4096) % 64),
              B64_PAD, B64_PAD>>
    ELSE IF Len(data) = 2 THEN
        LET n == data[1] * 65536 + data[2] * 256
        IN  <<B64Char(n \div 262144), B64Char((n \div 4096) % 64),
              B64Char((n \div 64) % 64), B64_PAD>>
    ELSE
        LET n == data[1] * 65536 + data[2] * 256 + data[3]
        IN  <<B64Char(n \div 262144), B64Char((n \div 4096) % 64),
              B64Char((n \div 64) % 64), B64Char(n % 64)>>
            \o b64encode(SubSeq(data, 4, Len(data)))

----------------------------------------------------------------------------
\* Message builder.

SystemMessage ==
    JObj(<< <<S_role, JStr(S_system)>>,
            <<S_content, JStr(MASTER_TUTOR_PROMPT)>> >>)

\* {"role": "user", "content": instruction}
TextUserMessage(instruction) ==
    JObj(<< <<S_role, JStr(S_user)>>, <<S_content, JStr(instruction)>> >>)

\* f"data:{mime_type};base64,{base64_image}"
DataUrl(mime_type, base64_image) ==
    S_data \o mime_type \o S_base64 \o base64_image

ImagePart(url) ==
    JObj(<< <<S_type, JStr(S_image_url)>>,
            <<S_image_url, JObj(<< <<S_url, JStr(url)>> >>)>> >>)

TextPart(instruction) ==
    JObj(<< <<S_type, JStr(S_text)>>, <<S_text, JStr(instruction)>> >>)

ImageUserMessage(url, instruction) ==
    JObj(<< <<S_role, JStr(S_user)>>,
            <<S_content, JList(<<ImagePart(url), TextPart(instruction)>>)>> >>)

\* image.content_type or "image/jpeg"
MimeType(content_type) ==
    IF Truthy(content_type) THEN content_type.s ELSE S_image_jpeg

\* variant: the caller's text is used whenever there is one
ImageInstruction_raw(problem_text) ==
    IF Truthy(problem_text) THEN problem_text.s
    ELSE DEFAULT_IMAGE_INSTRUCTION

\* is_arabic = problem_text and any(...)
\* instruction = ARABIC if is_arabic else problem_text or DEFAULT
ImageInstruction(problem_text) ==
    IF Truthy(problem_text) /\ is_arabic(problem_text.s)
    THEN ARABIC_IMAGE_INSTRUCTION
    ELSE IF Truthy(problem_text) THEN problem_text.s
         ELSE DEFAULT_IMAGE_INSTRUCTION

\* the text-only branch; text is a str here
TextInstruction(text) ==
    IF is_arabic(text) THEN text \o ARABIC_DIRECTIVE
    ELSE text \o ENGLISH_DIRECTIVE

----------------------------------------------------------------------------
\* json.loads(conversation_history).  The text of a history is given as its
\* sequence of lexemes; json.loads raises JSONDecodeError unless the
\* lexemes, whitespace apart, form exactly one JSON value.

Tok(t) == [t |-> t, v |-> <<>>]

TStr(s) == [t |-> "str", v |-> s]

TNum(n) == [t |-> "num", v |-> <<n>>]

ParseFail == [ok |-> FALSE, val |-> JNull, rest |-> <<>>]

ParseOk(val, rest) == [ok |-> TRUE, val |-> val, rest |-> rest]

\* d[key] = val on an insertion-ordered dict
DictSet(pairs, key, val) ==
    IF \E i \in 1..Len(pairs) : pairs[i][1] = key
    THEN [i \in 1..Len(pairs) |->
             IF pairs[i][1] = key THEN <<key, val>> ELSE pairs[i]]
    ELSE Append(pairs, <<key, val>>)

RECURSIVE ParseValue(_)
RECURSIVE ParseElements(_, _)
RECURSIVE ParseMembers(_, _)

ParseValue(toks) ==
    IF toks = <<>> THEN ParseFail
    ELSE LET h == Head(toks)
             r == Tail(toks)
         IN  CASE h.t = "num"  -> ParseOk(JNum(h.v[1]), r)
               [] h.t = "str"  -> ParseOk(JStr(h.v), r)
               [] h.t = "null" -> ParseOk(JNull, r)
               [] h.t = "true" -> ParseOk(JTrue, r)
               [] h.t = "["    ->
                    IF r # <<>> /\ Head(r).t = "]"
                    THEN ParseOk(JList(<<>>), Tail(r))
                    ELSE ParseElements(r, <<>>)
               [] h.t = "{"    ->
                    IF r # <<>> /\ Head(r).t = "}"
                    THEN ParseOk(JObj(<<>>), Tail(r))
                    ELSE ParseMembers(r, <<>>)
               [] OTHER        -> ParseFail

ParseElements(toks, acc) ==
    LET e == ParseValue(toks)
    IN  IF ~e.ok \/ e.rest = <<>> THEN ParseFail
        ELSE IF Head(e.rest).t = ","
             THEN ParseElements(Tail(e.rest), Append(acc, e.val))
        ELSE IF Head(e.rest).t = "]"
             THEN ParseOk(JList(Append(acc, e.val)), Tail(e.rest))
        ELSE ParseFail

ParseMembers(toks, acc) ==
    IF Len(toks) < 2 \/ toks[1].t # "str" \/ toks[2].t # ":" THEN ParseFail
    ELSE LET e == ParseValue(SubSeq(toks, 3, Len(toks)))
         IN  IF ~e.ok \/ e.rest = <<>> THEN ParseFail
             ELSE IF Head(e.rest).t = ","
                  THEN ParseMembers(Tail(e.rest),
                                    DictSet(acc, toks[1].v, e.val))
             ELSE IF Head(e.rest).t = "}"
                  THEN ParseOk(JObj(DictSet(acc, toks[1].v, e.val)),
                               Tail(e.rest))
             ELSE ParseFail

IsSpace(tok) == tok.t = "ws"

json_loads(text) ==
    LET p == ParseValue(SelectSeq(text, LAMBDA tok : ~IsSpace(tok)))
    IN  IF p.ok /\ p.rest = <<>>
        THEN [ok |-> TRUE, val |-> p.val, exc |-> NoExc]
        ELSE [ok |-> FALSE, val |-> JNull,
              exc |-> Exc("JSONDecodeError", "Expecting value")]

\* iter(x), as list.extend uses it: the items of a list, the characters of
\* a str, the keys of a dict; TypeError for anything else
Iterate(val) ==
    CASE val.k = "list" -> [ok |-> TRUE, items |-> val.v, exc |-> NoExc]
      [] val.k = "str"  ->
           [ok |-> TRUE, exc |-> NoExc,
            items |-> [i \in 1..Len(val.v) |-> JStr(<<val.v[i]>>)]]
      [] val.k = "obj"  ->
           [ok |-> TRUE, exc |-> NoExc,
            items |-> [i \in 1..Len(val.v) |-> JStr(val.v[i][1])]]
      [] OTHER ->
           [ok |-> FALSE, items |-> <<>>,
            exc |-> Exc("TypeError", "object is not iterable")]

----------------------------------------------------------------------------
\* Provider client.

\* the JSON body posted by call_groq_api
Payload(messages) ==
    [model |-> DEFAULT_MODEL, messages |-> messages,
     temperature |-> TEMPERATURE_TENTHS, max_tokens |-> MAX_TOKENS]

\* httpx.HTTPError and its subclasses: no connection, no answer within
\* TIMEOUT, and raise_for_status() on a non-2xx answer
TransportErrors == {"ConnectError", "ReadTimeout", "HTTPStatusError"}

IsHTTPError(exc) == exc.type \in TransportErrors

\* what `await call_groq_api(messages)` gives the handler: the parsed body,
\* or the exception raised by post(), raise_for_status() or json()
call_groq_api(r) ==
    IF r.kind = "json"
    THEN [ok |-> TRUE, data |-> r.data, exc |-> NoExc]
    ELSE [ok |-> FALSE, data |-> r.data, exc |-> Exc(r.kind, r.kind)]

----------------------------------------------------------------------------
\* POST /solve

NoImage ==
    [present |-> FALSE, readable |-> FALSE, data |-> <<>>,
     content_type |-> None]

\* variant: if problem_text is None and not image
MissingInput_none_only(problem_text, image) ==
    ~problem_text.present /\ ~image.present

\* if not problem_text and not image
MissingInput(problem_text, image) ==
    ~Truthy(problem_text) /\ ~image.present

\* except Exception as e, around the image branch
ImageExcept(exc) ==
    HTTPException(400, "Image processing error: " \o exc.str)

Built(messages) == [ok |-> TRUE, messages |-> messages, exc |-> NoExc]

Raised(exc) == [ok |-> FALSE, messages |-> <<>>, exc |-> exc]

\* the try body up to the provider call
SolveBuild(problem_text, image) ==
    IF MissingInput(problem_text, image)
    THEN Raised(HTTPException(400,
                    "Either problem_text or image must be provided"))
    ELSE IF image.present
    THEN IF ~image.readable
         THEN Raised(ImageExcept(Exc("OSError", "read failed")))
         ELSE Built(<<SystemMessage,
                      ImageUserMessage(
                          DataUrl(MimeType(image.content_type),
                                  b64encode(image.data)),
                          ImageInstruction(problem_text))>>)
    ELSE IF ~problem_text.present
    THEN Raised(Exc("TypeError", "'NoneType' object is not iterable"))
    ELSE Built(<<SystemMessage,
                 TextUserMessage(TextInstruction(problem_text.s))>>)

\* if "choices" not in response_data or not response_data["choices"]
InvalidChoices(data) == ~data.has_choices \/ data.choices = <<>>

\* variant: response_data["choices"][-1]
FirstChoice_last(choices) == choices[Len(choices)]

\* response_data["choices"][0]
FirstChoice(choices) == choices[1]

Returned(resp) == [ok |-> TRUE, response |-> resp, exc |-> NoExc]

Thrown(exc) == [ok |-> FALSE, response |-> [status |-> 0], exc |-> exc]

\* response_data.get("model", "llama-3.3-70b-versatile")
ModelOf(data) == IF data.has_model THEN data.model ELSE DEFAULT_MODEL

\* response_data.get("usage", {})
UsageOf(data) == IF data.has_usage THEN data.usage ELSE <<>>

\* the try body after the provider call
SolveFinish(r, req) ==
    LET c == call_groq_api(r)
    IN  IF ~c.ok THEN Thrown(c.exc)
        ELSE IF InvalidChoices(c.data)
        THEN Thrown(HTTPException(500, "Invalid response from AI service"))
        ELSE IF ~FirstChoice(c.data.choices).has_message
        THEN Thrown(Exc("KeyError", "'message'"))
        ELSE Returned(
                 [status |-> 200, success |-> TRUE,
                  solution |-> FirstChoice(c.data.choices).content,
                  model |-> ModelOf(c.data), usage |-> UsageOf(c.data),
                  metadata |-> [has_image |-> req.image.present,
                                has_text |-> req.problem_text.present,
                                teaching_mode |-> "adaptive"]])

\* variant: a transport failure reported as the caller's fault
SolveExcept_transport_400(exc) ==
    IF IsHTTPError(exc)
    THEN HTTPException(400, "Error calling AI service: " \o exc.str)
    ELSE HTTPException(500, "Internal server error: " \o exc.str)

\* except httpx.HTTPError / except Exception of solve_problem
SolveExcept(exc) ==
    IF IsHTTPError(exc)
    THEN HTTPException(500, "Error calling AI service: " \o exc.str)
    ELSE HTTPException(500, "Internal server error: " \o exc.str)

\* the JSON error body the framework sends for a raised HTTPException
ErrorResponse(h) == [status |-> h.status_code, detail |-> h.detail]

----------------------------------------------------------------------------
\* POST /chat

\* variant: the decode error is not caught
OnJSONDecodeError_raise(exc) == [ok |-> FALSE, items |-> <<>>, exc |-> exc]

\* except json.JSONDecodeError: pass
OnJSONDecodeError(exc) == [ok |-> TRUE, items |-> <<>>, exc |-> NoExc]

\* if conversation_history: history = json.loads(...); messages.extend(history)
ChatHistory(conversation_history) ==
    IF ~Truthy(conversation_history)
    THEN [ok |-> TRUE, items |-> <<>>, exc |-> NoExc]
    ELSE LET d == json_loads(conversation_history.s)
         IN  IF ~d.ok THEN OnJSONDecodeError(d.exc) ELSE Iterate(d.val)

\* variant: the directive of the text-only /solve branch is appended
ChatUserMessage_directive(message) ==
    TextUserMessage(TextInstruction(message))

\* {"role": "user", "content": message}
ChatUserMessage(message) == TextUserMessage(message)

\* variant: the history is added after the current message
ChatMessages_history_last(items, message) ==
    <<SystemMessage, ChatUserMessage(message)>> \o items

\* [system] + history + [current message]
ChatMessages(items, message) ==
    <<SystemMessage>> \o items \o <<ChatUserMessage(message)>>

ChatBuild(message, conversation_history) ==
    LET h == ChatHistory(conversation_history)
    IN  IF h.ok THEN Built(ChatMessages(h.items, message)) ELSE Raised(h.exc)

ChatFinish(r) ==
    LET c == call_groq_api(r)
    IN  IF ~c.ok THEN Thrown(c.exc)
        ELSE IF InvalidChoices(c.data)
        THEN Thrown(HTTPException(500, "Invalid response from AI service"))
        ELSE IF ~FirstChoice(c.data.choices).has_message
        THEN Thrown(Exc("KeyError", "'message'"))
        ELSE Returned(
                 [status |-> 200, success |-> TRUE,
                  response |-> FirstChoice(c.data.choices).content,
                  model |-> ModelOf(c.data)])

\* except httpx.HTTPError / except Exception of chat
ChatExcept(exc) ==
    IF IsHTTPError(exc)
    THEN HTTPException(500, "Error calling AI service: " \o exc.str)
    ELSE HTTPException(500, "Internal server error: " \o exc.str)

----------------------------------------------------------------------------
\* Inputs.

\* '2', and the codepoints around both ends of the Arabic block
CodePoints == {50, 1535, 1536, 1791, 1792}

Texts == UNION {[1..n -> CodePoints] : n \in 0..MaxTextLen}

OptTexts == {None} \cup {Some(t) : t \in Texts}

ImageBytes == {0, 255}

ImageData == UNION {[1..n -> ImageBytes] : n \in 0..MaxImageLen}

Images ==
    {NoImage}
    \cup {[present |-> TRUE, readable |-> FALSE, data |-> <<>>,
           content_type |-> None]}
    \cup {[present |-> TRUE, readable |-> TRUE, data |-> d,
           content_type |-> c] :
             d \in ImageData, c \in {None, Some(S_image_png)}}

PriorUser ==
    <<Tok("{"), TStr(S_role), Tok(":"), TStr(S_user), Tok(","),
      TStr(S_content), Tok(":"), TStr(<<50>>), Tok("}")>>

PriorAssistant ==
    <<Tok("{"), TStr(S_role), Tok(":"), TStr(S_assistant), Tok(","),
      TStr(S_content), Tok(":"), TStr(<<1587>>), Tok("}")>>

\* texts of conversation_history, as lexemes
HistorySamples ==
    { <<>>,                                                  \* (empty)
      <<Tok("ws")>>,                                         \* blank
      <<Tok("[")>>,                                          \* [
      <<Tok("["), TNum(5), Tok(","), Tok("]")>>,             \* [5,]
      <<TNum(5), Tok("ws"), TNum(5)>>,                       \* 5 5
      <<Tok("{"), TStr(S_role), TStr(S_user), Tok("}")>>,    \* {"role" "user"}
      <<Tok("["), Tok("]")>>,                                \* []
      <<Tok("[")>> \o PriorUser \o <<Tok("]")>>,
      <<Tok("[")>> \o PriorUser \o <<Tok(","), Tok("ws")>>
                   \o PriorAssistant \o <<Tok("]")>>,
      <<Tok("[")>> \o PriorAssistant \o <<Tok(",")>>
                   \o PriorUser \o <<Tok("]")>>,
      <<Tok("["), TNum(5), Tok("]")>>,                       \* [5]
      <<TNum(5)>>,                                           \* 5
      <<Tok("null")>>,                                       \* null
      <<TStr(<<50, 43>>)>>,                                  \* "2+"
      <<TStr(<<>>)>>,                                        \* ""
      PriorUser }                                            \* {...}

Histories == {None} \cup {Some(h) : h \in HistorySamples}

ReplyTexts == {<<52>>, <<1587>>}

Choices ==
    {[has_message |-> FALSE, content |-> <<>>]}
    \cup {[has_message |-> TRUE, content |-> t] : t \in ReplyTexts}

ChoiceLists == UNION {[1..n -> Choices] : n \in 0..MaxChoices}

Body(has_choices, choices, named) ==
    [has_choices |-> has_choices, choices |-> choices,
     has_model |-> named,
     model |-> IF named THEN "llama-3.1-8b-instant" ELSE "",
     has_usage |-> named,
     usage |-> IF named THEN << <<"total_tokens", 42>> >> ELSE <<>>]

ResponseBodies ==
    {Body(FALSE, <<>>, named) : named \in BOOLEAN}
    \cup {Body(TRUE, cl, named) : cl \in ChoiceLists, named \in BOOLEAN}

NoReply == [kind |-> "none", data |-> Body(FALSE, <<>>, FALSE)]

\* the outcomes of one provider call; "JSONDecodeError" is a 2xx answer
\* whose body is not JSON
ProviderReplies ==
    {[kind |-> "json", data |-> d] : d \in ResponseBodies}
    \cup {[kind |-> e, data |-> Body(FALSE, <<>>, FALSE)] :
            e \in TransportErrors \cup {"JSONDecodeError"}}

NoRequest ==
    [endpoint |-> "none", problem_text |-> None, image |-> NoImage,
     message |-> <<>>, conversation_history |-> None]

NoResponse == [status |-> 0]

----------------------------------------------------------------------------
\* The handlers as steps: from the request to the suspension in the
\* provider call (or to an early error), and from the provider's outcome
\* to the response.

Init ==
    /\ pc = "idle"
    /\ request = NoRequest
    /\ outbound = <<>>
    /\ reply = NoReply
    /\ response = NoResponse

SolveBegin ==
    /\ pc = "idle"
    /\ \E problem_text \in OptTexts, image \in Images :
         LET b == SolveBuild(problem_text, image)
         IN  /\ request' = [NoRequest EXCEPT !.endpoint = "solve",
                                             !.problem_text = problem_text,
                                             !.image = image]
             /\ IF b.ok
                THEN /\ outbound' = Append(outbound, Payload(b.messages))
                     /\ pc' = "awaiting"
                     /\ UNCHANGED response
                ELSE /\ response' = ErrorResponse(SolveExcept(b.exc))
                     /\ pc' = "done"
                     /\ UNCHANGED outbound
    /\ UNCHANGED reply

SolveEnd ==
    /\ pc = "awaiting"
    /\ request.endpoint = "solve"
    /\ \E r \in ProviderReplies :
         LET f == SolveFinish(r, request)
         IN  /\ reply' = r
             /\ response' = IF f.ok THEN f.response
                            ELSE ErrorResponse(SolveExcept(f.exc))
    /\ pc' = "done"
    /\ UNCHANGED <<request, outbound>>

ChatBegin ==
    /\ pc = "idle"
    /\ \E message \in Texts, conversation_history \in Histories :
         LET b == ChatBuild(message, conversation_history)
         IN  /\ request' = [NoRequest EXCEPT
                              !.endpoint = "chat",
                              !.message = message,
                              !.conversation_history = conversation_history]
             /\ IF b.ok
                THEN /\ outbound' = Append(outbound, Payload(b.messages))
                     /\ pc' = "awaiting"
                     /\ UNCHANGED response
                ELSE /\ response' = ErrorResponse(ChatExcept(b.exc))
                     /\ pc' = "done"
                     /\ UNCHANGED outbound
    /\ UNCHANGED reply

ChatEnd ==
    /\ pc = "awaiting"
    /\ request.endpoint = "chat"
    /\ \E r \in ProviderReplies :
         LET f == ChatFinish(r)
         IN  /\ reply' = r
             /\ response' = IF f.ok THEN f.response
                            ELSE ErrorResponse(ChatExcept(f.exc))
    /\ pc' = "done"
    /\ UNCHANGED <<request, outbound>>

Next == SolveBegin \/ SolveEnd \/ ChatBegin \/ ChatEnd

Spec == Init /\ [][Next]_vars

\* the provider call is bounded by TIMEOUT, so a suspended handler resumes
FairSpec == Spec /\ WF_vars(SolveEnd) /\ WF_vars(ChatEnd)

----------------------------------------------------------------------------
\* Properties.

IsSolve == request.endpoint = "solve"

IsChat == request.endpoint = "chat"

\* the provider has been called
Called == Len(outbound) = 1

\* d[key] of a dict that has the key
JGet(obj, key) ==
    LET i == CHOOSE i \in 1..Len(obj.v) : obj.v[i][1] = key
    IN  obj.v[i][2]

JHas(obj, key) == \E i \in 1..Len(obj.v) : obj.v[i][1] = key

\* at least one codepoint in U+0600..U+06FF
HasArabicCodepoint(text) ==
    \E i \in DOMAIN text : text[i] \in 1536..1791

PlainUserTurn(text) ==
    JObj(<< <<S_role, JStr(S_user)>>, <<S_content, JStr(text)>> >>)

\* the provider answered with a body whose first choice carries a message
ProviderSuccess ==
    /\ reply.kind = "json"
    /\ reply.data.has_choices
    /\ Len(reply.data.choices) > 0
    /\ reply.data.choices[1].has_message

\* C1: a /solve request with neither problem_text (absent or empty) nor
\* image is answered with HTTP status 400, and no provider call is made.
C1_NoInputIs400 ==
    (IsSolve /\ ~request.image.present
        /\ (~request.problem_text.present \/ request.problem_text.s = <<>>))
    => /\ outbound = <<>>
       /\ pc = "done" => response.status = 400

\* C2 as stated: a /chat request with a message without Arabic codepoint
\* and without history sends [system prompt, user turn whose content is the
\* message followed by the adaptive-teaching directive], and on provider
\* success answers {success: true, response: text, model: id}.
C2_ChatAppendsDirective ==
    (IsChat /\ ~HasArabicCodepoint(request.message)
        /\ ~request.conversation_history.present /\ pc # "idle")
    => /\ Called
       /\ outbound[1].messages =
            <<SystemMessage,
              PlainUserTurn(request.message \o ENGLISH_DIRECTIVE)>>
       /\ (pc = "done" /\ ProviderSuccess)
            => response = [status |-> 200, success |-> TRUE,
                           response |-> reply.data.choices[1].content,
                           model |-> IF reply.data.has_model
                                     THEN reply.data.model
                                     ELSE DEFAULT_MODEL]

\* C2 amended: a /chat request with a message without Arabic codepoint and
\* without history sends exactly [system prompt, {role: user, content:
\* message}], the message unchanged and no directive appended, and on
\* provider success answers {success: true, response: text, model: id}.
C2_ChatSendsMessageUnchanged ==
    (IsChat /\ ~HasArabicCodepoint(request.message)
        /\ ~request.conversation_history.present /\ pc # "idle")
    => /\ Called
       /\ outbound[1].messages =
            <<SystemMessage, PlainUserTurn(request.message)>>
       /\ (pc = "done" /\ ProviderSuccess)
            => response = [status |-> 200, success |-> TRUE,
                           response |-> reply.data.choices[1].content,
                           model |-> IF reply.data.has_model
                                     THEN reply.data.model
                                     ELSE DEFAULT_MODEL]

C2_Witness ==
    /\ IsChat /\ pc = "done"
    /\ request.message # <<>> /\ ~HasArabicCodepoint(request.message)
    /\ ~request.conversation_history.present
    /\ ProviderSuccess /\ reply.data.has_model
    /\ response.status = 200

\* C3: a /solve request whose image cannot be read or encoded is answered
\* with HTTP status 400, not 500, and no provider call is made.
C3_ImageFailureIs400 ==
    (IsSolve /\ request.image.present /\ ~request.image.readable)
    => /\ outbound = <<>>
       /\ pc = "done" => response.status = 400

\* C4: a /chat request whose conversation_history is the empty string or
\* is not valid JSON does not fail because of the history (the provider is
\* called), and sends what it would send without history: [system prompt,
\* {role: user, content: message}].
C4_BadHistoryAsOmitted ==
    (IsChat /\ request.conversation_history.present
        /\ (\/ request.conversation_history.s = <<>>
            \/ ~json_loads(request.conversation_history.s).ok))
    => /\ Called
       /\ outbound[1].messages =
            <<SystemMessage, PlainUserTurn(request.message)>>
       /\ outbound[1].messages = ChatBuild(request.message, None).messages

C4_Witness ==
    /\ IsChat /\ pc = "done"
    /\ request.conversation_history.present
    /\ request.conversation_history.s # <<>>
    /\ ~json_loads(request.conversation_history.s).ok
    /\ Called /\ response.status = 200

IsRoleContent(val) ==
    val.k = "obj" /\ JHas(val, S_role) /\ JHas(val, S_content)

IsMessageSequence(val) ==
    val.k = "list" /\ \A i \in 1..Len(val.v) : IsRoleContent(val.v[i])

\* C5: a /chat request whose conversation_history is present but does not
\* parse as a sequence of role/content messages (valid JSON that is not a
\* list included) still calls the provider, and sends only the system
\* prompt and the current user message.
C5_UnusableHistoryIgnored ==
    (IsChat /\ request.conversation_history.present
        /\ (\/ ~json_loads(request.conversation_history.s).ok
            \/ ~IsMessageSequence(
                    json_loads(request.conversation_history.s).val)))
    => /\ Called
       /\ outbound[1].messages =
            <<SystemMessage, PlainUserTurn(request.message)>>

\* the text of a success response
ResponseText == IF IsSolve THEN response.solution ELSE response.response

\* C6: on both endpoints, a provider body with a missing or empty choices
\* list ends the request with HTTP status 500 and never with a success
\* response; a success response is produced only when choices is
\* non-empty, and its text is the content of the first choice's message.
C6_ChoicesDecideSuccess ==
    pc = "done" =>
        /\ (reply.kind = "json"
              /\ (~reply.data.has_choices \/ reply.data.choices = <<>>))
           => response.status = 500
        /\ response.status = 200
           => /\ reply.kind = "json"
              /\ reply.data.has_choices
              /\ reply.data.choices # <<>>
              /\ ResponseText = reply.data.choices[1].content

C6_Witness ==
    /\ pc = "done" /\ IsChat
    /\ reply.kind = "json"
    /\ reply.data.has_choices /\ reply.data.choices = <<>>
    /\ response.status = 500

\* the text part the claim C7 expects for a problem_text
ExpectedImageText(problem_text) ==
    IF problem_text.present /\ HasArabicCodepoint(problem_text.s)
    THEN ARABIC_IMAGE_INSTRUCTION
    ELSE IF problem_text.present /\ problem_text.s # <<>>
         THEN problem_text.s
         ELSE DEFAULT_IMAGE_INSTRUCTION

\* C7: the user message of a /solve request with an image has exactly two
\* parts, the image part first and the text part second; the text is the
\* fixed Arabic instruction when problem_text has a codepoint in
\* U+0600..U+06FF, the caller's raw text when problem_text is non-empty
\* without one, and the default English instruction when problem_text is
\* absent or empty.
C7_ImageTextPart ==
    (IsSolve /\ request.image.present /\ Called)
    => LET content == JGet(outbound[1].messages[2], S_content)
       IN  /\ content.k = "list"
           /\ Len(content.v) = 2
           /\ JGet(content.v[1], S_type) = JStr(S_image_url)
           /\ JHas(content.v[1], S_image_url)
           /\ content.v[2] =
                JObj(<< <<S_type, JStr(S_text)>>,
                        <<S_text,
                          JStr(ExpectedImageText(request.problem_text))>> >>)

C7_Witness ==
    /\ IsSolve /\ request.image.present /\ Called
    /\ HasArabicCodepoint(request.problem_text.s)
    /\ \E i \in DOMAIN request.problem_text.s :
          request.problem_text.s[i] \notin 1536..1791
    /\ JGet(JGet(outbound[1].messages[2], S_content).v[2], S_text) =
          JStr(ARABIC_IMAGE_INSTRUCTION)

\* a history the handler accepts as a sequence of prior messages: a
\* non-empty text that decodes to a JSON array
AcceptedHistory(h) ==
    /\ h.present /\ h.s # <<>>
    /\ json_loads(h.s).ok
    /\ json_loads(h.s).val.k = "list"

\* C8: in every message sequence passed to the provider the first message
\* is the fixed system prompt with role system and the last is the current
\* user turn; for /chat an accepted history lies between them, verbatim
\* and in the caller's order; a /solve sequence has exactly two messages.
C8_MessageOrder ==
    Called =>
        LET m == outbound[1].messages
        IN  /\ Len(m) >= 2
            /\ m[1] = SystemMessage
            /\ JGet(m[1], S_role) = JStr(S_system)
            /\ IsSolve => Len(m) = 2 /\ JGet(m[2], S_role) = JStr(S_user)
            /\ IsChat => m[Len(m)] = PlainUserTurn(request.message)
            /\ (IsChat /\ AcceptedHistory(request.conversation_history))
               => SubSeq(m, 2, Len(m) - 1) =
                    json_loads(request.conversation_history.s).val.v

C8_Witness ==
    /\ IsChat /\ Called
    /\ AcceptedHistory(request.conversation_history)
    /\ Len(outbound[1].messages) = 4
    /\ JGet(outbound[1].messages[2], S_role) = JStr(S_assistant)
    /\ JGet(outbound[1].messages[3], S_role) = JStr(S_user)

C9_Outcome ==
    /\ Len(outbound) <= 1
    /\ pc # "done" => response = NoResponse
    /\ pc = "done" =>
          \/ response.status = 200 /\ response.success
          \/ response.status >= 400 /\ "success" \notin DOMAIN response
    /\ (pc = "done" /\ reply.kind \in
            {"ConnectError", "ReadTimeout", "HTTPStatusError"})
       => Len(outbound) = 1 /\ response.status = 500

C9_Step ==
    /\ Len(outbound') >= Len(outbound)
    /\ pc = "awaiting" => outbound' = outbound
    /\ pc = "done" => UNCHANGED vars

\* C9: a request issues at most one provider call and always ends in
\* exactly one of two outcomes, a success response or an error response;
\* after a transport failure of the call (network failure, non-2xx status,
\* timeout) no second call is made and the request ends with status 500.
C9_SingleAttempt ==
    /\ [](C9_Outcome)
    /\ [][C9_Step]_vars
    /\ (pc = "awaiting") ~> (pc = "done")

C9_Witness ==
    /\ pc = "done" /\ reply.kind = "ReadTimeout"
    /\ Len(outbound) = 1 /\ response.status = 500

\* C10: a /solve request without image that reaches message construction
\* has a present, non-empty problem_text, and its user message is plain
\* text: problem_text, then "\n\n" and the Syrian-dialect-only directive
\* when problem_text has a codepoint in U+0600..U+06FF, else "\n\n" and
\* "Provide adaptive teaching based on the problem difficulty.".
C10_TextOnlyMessage ==
    (IsSolve /\ ~request.image.present /\ Called)
    => /\ request.problem_text.present
       /\ request.problem_text.s # <<>>
       /\ outbound[1].messages[2] =
            PlainUserTurn(
                request.problem_text.s
                \o (IF HasArabicCodepoint(request.problem_text.s)
                    THEN ARABIC_DIRECTIVE ELSE ENGLISH_DIRECTIVE))
       /\ SubSeq(ARABIC_DIRECTIVE, 1, 2) = <<10, 10>>
       /\ SubSeq(ENGLISH_DIRECTIVE, 1, 2) = <<10, 10>>

C10_Witness ==
    /\ IsSolve /\ ~request.image.present /\ Called
    /\ HasArabicCodepoint(request.problem_text.s)
    /\ Len(request.problem_text.s) = 2
    /\ JGet(outbound[1].messages[2], S_content).k = "str"

====
